---- MODULE Spec2Model ----
(***************************************************************************)
(* UK VRM Lookup API (src/backend/main.py): the lifespan of the shared     *)
(* outbound client, the POST /lookup handler with call_dvla, and the pure  *)
(* function normalize_plate.                                               *)
(*                                                                         *)
(* Strings of the program are sequences of Unicode code points (Latin-1    *)
(* range), so that strip, the [\s-] substitution and upper() are computed  *)
(* character by character.  An Optional value is a sequence of length at   *)
(* most one: None is << >>, a present value v is <<v>>.                    *)
(***************************************************************************)
EXTENDS Integers, Sequences, FiniteSets, TLC

VARIABLES
    phase,      \* position of lifespan(): "init", "running", "closing", "stopped"
    http,       \* the global _http: "None", "open" (a live client), "closed" (a closed client)
    nCreated,   \* how many times httpx.AsyncClient(...) was constructed
    nClosed,    \* how many times aclose() was called
    key,        \* DVLA_API_KEY as read from the environment (Optional string)
    req,        \* one record per inbound POST /lookup
    norm        \* a stand-alone application of normalize_plate

vars == <<phase, http, nCreated, nClosed, key, req, norm>>

----------------------------------------------------------------------------
(* Bounds of the model *)

NReq == 2          \* concurrent lookups
MaxPlateLen == 2   \* length of the plates submitted to POST /lookup
MaxLen == 3        \* length of the inputs of the stand-alone normalize_plate
MaxExtra == 2      \* how far an upstream error body exceeds the snippet length

(* Program constants *)

SnippetLen == 200      \* response.text[:200]
HYPHEN == 45           \* "-" in the character class [\s-]

----------------------------------------------------------------------------
(* Strings *)

None == << >>
Some(v) == <<v>>

Min(a, b) == IF a < b THEN a ELSE b

\* Py_UNICODE_ISSPACE on the Latin-1 range: what both str.strip() and the
\* regular expression class \s use for a str.
Whitespace == {9, 10, 11, 12, 13, 28, 29, 30, 31, 32, 133, 160}

IsSpace(c) == c \in Whitespace

\* str.upper() of one character (Latin-1 range): a string, since the sharp s
\* becomes two characters.
UpperChar(c) ==
    IF c \in 97..122 THEN <<c - 32>>
    ELSE IF c = 181 THEN <<924>>
    ELSE IF c = 223 THEN <<83, 83>>
    ELSE IF c \in 224..254 /\ c # 247 THEN <<c - 32>>
    ELSE IF c = 255 THEN <<376>>
    ELSE <<c>>

RECURSIVE str_upper(_)
str_upper(s) ==
    IF s = << >> THEN << >> ELSE UpperChar(Head(s)) \o str_upper(Tail(s))

\* re.sub(r"[\s-]", "", s): scan from the left, drop each match.
\* The character class with the blank in place of \s, as r"[ -]" would be.
RemovedBlankOrHyphen(c) == c = 32 \/ c = HYPHEN

Removed(c) == IsSpace(c) \/ c = HYPHEN

RECURSIVE re_sub_remove(_)
re_sub_remove(s) ==
    IF s = << >> THEN << >>
    ELSE IF Removed(Head(s)) THEN re_sub_remove(Tail(s))
    ELSE <<Head(s)>> \o re_sub_remove(Tail(s))

normalize_plate(plate) == str_upper(re_sub_remove(plate))

\* str.strip(): drop leading and trailing whitespace.
RECURSIVE lstrip_spaces(_)
lstrip_spaces(s) ==
    IF s = << >> THEN << >>
    ELSE IF Head(s) = 32 THEN lstrip_spaces(Tail(s))
    ELSE s

RECURSIVE rstrip_spaces(_)
rstrip_spaces(s) ==
    IF s = << >> THEN << >>
    ELSE IF s[Len(s)] = 32 THEN rstrip_spaces(SubSeq(s, 1, Len(s) - 1))
    ELSE s

\* A strip that knows only the blank, as str.strip(" ") would be.
str_strip_blank(s) == rstrip_spaces(lstrip_spaces(s))

RECURSIVE lstrip(_)
lstrip(s) ==
    IF s = << >> THEN << >>
    ELSE IF IsSpace(Head(s)) THEN lstrip(Tail(s))
    ELSE s

RECURSIVE rstrip(_)
rstrip(s) ==
    IF s = << >> THEN << >>
    ELSE IF IsSpace(s[Len(s)]) THEN rstrip(SubSeq(s, 1, Len(s) - 1))
    ELSE s

str_strip(s) == rstrip(lstrip(s))

\* s[:n]
SliceTo(s, n) == SubSeq(s, 1, Min(n, Len(s)))

----------------------------------------------------------------------------
(* Values of the handler *)

\* LookupResponse: five Optional fields, None by default (lines 87-93).
LookupResponse(make, model, colour, year_of_manufacture, fuel_type) ==
    [make |-> make, model |-> model, colour |-> colour,
     year_of_manufacture |-> year_of_manufacture, fuel_type |-> fuel_type]

NoBody == LookupResponse(None, None, None, None, None)

\* How a handler ends: by returning a LookupResponse (kind "return"), by
\* raising HTTPException(status_code, detail) (kind "HTTPException", the detail
\* being prefix followed by snippet), or by letting another exception escape
\* (kind "Exception", exc its class).  "pending" while it has not ended.
Pending ==
    [kind |-> "pending", status_code |-> 0, prefix |-> "", snippet |-> << >>,
     exc |-> "", body |-> NoBody]

Returned(b) == [Pending EXCEPT !.kind = "return", !.status_code = 200, !.body = b]

HTTPException(status_code, prefix, snippet) ==
    [Pending EXCEPT !.kind = "HTTPException", !.status_code = status_code,
                    !.prefix = prefix, !.snippet = snippet]

Unhandled(exc) == [Pending EXCEPT !.kind = "Exception", !.status_code = 500, !.exc = exc]

\* Truthiness of str, Optional[str] and dict values.
key_is_none(k) == k = None
key_missing(k) == k = None \/ k[1] = ""

\* dict.get(name): the value, or None when the key is absent.
dict_get(d, name) == IF name \in DOMAIN d THEN Some(d[name]) ELSE None

dict_truthy(d) == DOMAIN d # {}

----------------------------------------------------------------------------
(* call_dvla and lookup, cut at the one await (line 132) *)

\* Lines 121-132: what call_dvla does up to the await of _http.post.
call_dvla_entry(k, h, plate) ==
    IF key_missing(k) THEN [step |-> "return_none", payload |-> None]
    ELSE IF h = "None" THEN [step |-> "assert_failed", payload |-> None]
    ELSE IF h = "closed"
         THEN [step |-> "client_closed", payload |-> Some(normalize_plate(plate))]
    ELSE [step |-> "post", payload |-> Some(normalize_plate(plate))]

is_404_only(status_code) == status_code = 404
is_not_found(status_code) == status_code \in {400, 404}

whole_text(text) == text
error_snippet(text) == SliceTo(text, SnippetLen)

\* Lines 134-143: call_dvla after the response has arrived.  The value is
\* [raised, value, exception]: a returned Optional dict or a raised exception.
call_dvla_result(resp) ==
    IF resp.status_code = 200
    THEN [raised |-> FALSE, value |-> Some(resp.json), exception |-> Pending]
    ELSE IF is_not_found(resp.status_code)
    THEN [raised |-> FALSE, value |-> None, exception |-> Pending]
    ELSE [raised |-> TRUE, value |-> None,
          exception |-> HTTPException(resp.status_code, "DVLA error: ",
                                      error_snippet(resp.text))]

\* Lines 185-195: lookup once call_dvla has returned `vehicle`.
lookup_finish(vehicle) ==
    IF vehicle # None /\ dict_truthy(vehicle[1])
    THEN Returned(LookupResponse(dict_get(vehicle[1], "make"),
                                 dict_get(vehicle[1], "model"),
                                 dict_get(vehicle[1], "colour"),
                                 dict_get(vehicle[1], "yearOfManufacture"),
                                 dict_get(vehicle[1], "fuelType")))
    ELSE HTTPException(404, "Vehicle not found", << >>)

\* Lines 179-184 with 121-132: the handler from its start to the await.
lookup_start(q, k, h) ==
    LET plate == str_strip(q.raw)
        entry == call_dvla_entry(k, h, plate)
    IN  IF plate = << >>
        THEN [q EXCEPT !.pc = "done",
                       !.outcome = HTTPException(400, "plate required", << >>)]
        ELSE IF entry.step = "return_none"
        THEN [q EXCEPT !.pc = "done", !.outcome = lookup_finish(None)]
        ELSE IF entry.step = "assert_failed"
        THEN [q EXCEPT !.pc = "done", !.outcome = Unhandled("AssertionError")]
        ELSE IF entry.step = "client_closed"
        THEN [q EXCEPT !.pc = "done", !.outcome = Unhandled("RuntimeError")]
        ELSE [q EXCEPT !.pc = "UpstreamQueried", !.sent = entry.payload,
                       !.calls = @ + 1]

\* A handler that posts again when the upstream answers 5xx.
lookup_resume_retry(q, resp) ==
    IF resp.status_code >= 500 /\ q.calls < 2
    THEN [q EXCEPT !.calls = @ + 1]
    ELSE LET res == call_dvla_result(resp)
         IN  [q EXCEPT !.pc = "done", !.upstream = Some(resp),
                       !.outcome = IF res.raised THEN res.exception
                                   ELSE lookup_finish(res.value)]

\* Lines 134-143 and 185-195: the handler from the response to its end.
lookup_resume(q, resp) ==
    LET res == call_dvla_result(resp)
    IN  [q EXCEPT !.pc = "done", !.upstream = Some(resp),
                  !.outcome = IF res.raised THEN res.exception
                              ELSE lookup_finish(res.value)]

\* The awaited post (line 132) raises instead of returning a response.  No
\* try statement encloses the await, in call_dvla or in lookup (line 184):
\* the exception escapes the handler as it is.
lookup_post_raised(q, exc) ==
    [q EXCEPT !.pc = "done", !.raised = Some(exc), !.outcome = Unhandled(exc)]

\* The states of the lookup state machine, read off the handler's position
\* and the way it ended.
State(q) ==
    IF q.pc # "done" THEN q.pc
    ELSE IF q.outcome.kind = "return" THEN "Completed"
    ELSE IF q.outcome.kind = "HTTPException" /\ q.outcome.status_code = 404
            /\ q.outcome.prefix = "Vehicle not found" /\ q.outcome.snippet = << >>
         THEN "NotFound"
    ELSE "Failed"

----------------------------------------------------------------------------
(* Inputs *)

\* All strings over `alphabet` of length at most n.
Strings(alphabet, n) == UNION {[1..k -> alphabet] : k \in 0..n}

\* "a", "1", blank, tab, hyphen
PlateAlphabet == {97, 49, 32, 9, HYPHEN}
Plates == Strings(PlateAlphabet, MaxPlateLen)

\* "a", "Z", "1", blank, tab, no-break space, hyphen, sharp s
NormAlphabet == {97, 90, 49, 32, 9, 160, HYPHEN, 223}
\* "ab 12-cde", "A-B 1-2", "AB12CDE"
Examples ==
    {<<97, 98, 32, 49, 50, 45, 99, 100, 101>>,
     <<65, 45, 66, 32, 49, 45, 50>>,
     <<65, 66, 49, 50, 67, 68, 69>>}
NormInputs == Strings(NormAlphabet, MaxLen) \cup Examples

\* DVLA_API_KEY: unset, set to the empty string, set to a key.
Keys == {None, Some(""), Some("secret")}

\* The JSON object of a 200 answer: any subset of the five fields the handler
\* reads and one it does not, each with a value of the field's type.
FieldNames == {"make", "model", "colour", "yearOfManufacture", "fuelType", "taxStatus"}
FieldValue(name) ==
    CASE name = "make" -> "FORD"
      [] name = "model" -> "FIESTA"
      [] name = "colour" -> "BLUE"
      [] name = "yearOfManufacture" -> 2015
      [] name = "fuelType" -> "PETROL"
      [] name = "taxStatus" -> "Taxed"
Record(names) == [name \in names |-> FieldValue(name)]
Bodies == {Record(names) : names \in SUBSET FieldNames}

\* The text of an error answer: n characters, each telling its position.
Text(n) == [i \in 1..n |-> 97 + (i % 26)]
TextLens == {0, 1, SnippetLen - 1} \cup {SnippetLen + k : k \in 0..MaxExtra}
Texts == {Text(n) : n \in TextLens}

Statuses == {200, 201, 400, 401, 404, 429, 500, 503}

\* An upstream answer as the handler reads it: status_code, and the body as
\* json() (read on 200 only) and as text (read on an error status only).
Response(status_code, json, text) ==
    [status_code |-> status_code, json |-> json, text |-> text]
Responses ==
    {Response(200, b, << >>) : b \in Bodies}
    \cup {Response(st, Record({}), t) : st \in Statuses \ {200}, t \in Texts}

\* What the awaited post can raise: the timeouts of a client built with
\* timeout=10 (line 49), which apply to acquiring a connection, connecting,
\* writing and reading separately, and the errors of the transport.
TimeoutExceptions ==
    {"httpx.PoolTimeout", "httpx.ConnectTimeout", "httpx.WriteTimeout",
     "httpx.ReadTimeout"}
PostExceptions == TimeoutExceptions \cup {"httpx.ConnectError", "httpx.ReadError"}

\* The smaller inputs of the concurrent specification.
ConcPlates == {<<97, 49>>, <<32>>, <<HYPHEN>>}
ConcResponses ==
    {Response(200, Record(FieldNames), << >>), Response(200, Record({}), << >>),
     Response(404, Record({}), Text(1)), Response(503, Record({}), Text(SnippetLen + 1))}

Requests == 1..NReq

Idle ==
    [pc |-> "idle", raw |-> << >>, sent |-> None, calls |-> 0,
     upstream |-> None, raised |-> None, outcome |-> Pending]

NormIdle == [pc |-> "idle", input |-> << >>, output |-> << >>]

----------------------------------------------------------------------------
(* The process *)

Init ==
    /\ phase = "init"
    /\ http = "None"
    /\ nCreated = 0
    /\ nClosed = 0
    /\ key \in Keys
    /\ req = [r \in Requests |-> Idle]
    /\ norm = NormIdle

\* The client lifespan() builds before it yields (line 49).
lifespan_client == "open"

\* lifespan() up to its yield (lines 48-50).
Startup ==
    /\ phase = "init"
    /\ phase' = "running"
    /\ http' = lifespan_client
    /\ nCreated' = IF lifespan_client = "None" THEN nCreated ELSE nCreated + 1
    /\ UNCHANGED <<nClosed, key, req, norm>>

\* lifespan() after its yield, up to the await of aclose() (lines 51-52).
\* Nothing in it waits for the lookups in flight.
ShutdownBegin ==
    /\ phase = "running"
    /\ phase' = "closing"
    /\ IF http # "None"
       THEN http' = "closed" /\ nClosed' = nClosed + 1
       ELSE UNCHANGED <<http, nClosed>>
    /\ UNCHANGED <<nCreated, key, req, norm>>

\* lifespan() once aclose() has returned (line 53).
ShutdownEnd ==
    /\ phase = "closing"
    /\ phase' = "stopped"
    /\ http' = "None"
    /\ UNCHANGED <<nCreated, nClosed, key, req, norm>>

\* A POST /lookup with body {"plate": raw} reaches the handler.  The route
\* (line 163) does not depend on lifespan(): a request can be dispatched
\* before startup, while the client is being closed, and after shutdown.
Receive(r, raw) ==
    /\ req[r].pc = "idle"
    /\ req' = [req EXCEPT ![r] = [@ EXCEPT !.pc = "Received", !.raw = raw]]
    /\ UNCHANGED <<phase, http, nCreated, nClosed, key, norm>>

\* lookup() runs from its first line to the await of the post, or to its end.
LookupStart(r) ==
    /\ req[r].pc = "Received"
    /\ req' = [req EXCEPT ![r] = lookup_start(@, key, http)]
    /\ UNCHANGED <<phase, http, nCreated, nClosed, key, norm>>

\* The upstream answers; lookup() runs to its end.
UpstreamRespond(r, resp) ==
    /\ req[r].pc = "UpstreamQueried"
    /\ req' = [req EXCEPT ![r] = lookup_resume(@, resp)]
    /\ UNCHANGED <<phase, http, nCreated, nClosed, key, norm>>

\* The post raises (a timeout, a transport error); the exception ends lookup().
UpstreamError(r, exc) ==
    /\ req[r].pc = "UpstreamQueried"
    /\ req' = [req EXCEPT ![r] = lookup_post_raised(@, exc)]
    /\ UNCHANGED <<phase, http, nCreated, nClosed, key, norm>>

\* Concurrent lookups over the small inputs.
Next ==
    \/ Startup
    \/ ShutdownBegin
    \/ ShutdownEnd
    \/ \E r \in Requests, raw \in ConcPlates : Receive(r, raw)
    \/ \E r \in Requests : LookupStart(r)
    \/ \E r \in Requests, resp \in ConcResponses : UpstreamRespond(r, resp)
    \/ \E r \in Requests, exc \in PostExceptions : UpstreamError(r, exc)

Spec == Init /\ [][Next]_vars

\* One lookup at a time over all plates and all upstream answers.
NextLookup ==
    \/ Startup
    \/ ShutdownBegin
    \/ ShutdownEnd
    \/ \E raw \in Plates : Receive(1, raw)
    \/ LookupStart(1)
    \/ \E resp \in Responses : UpstreamRespond(1, resp)
    \/ \E exc \in PostExceptions : UpstreamError(1, exc)

SpecLookup == Init /\ [][NextLookup]_vars

\* normalize_plate on its own, over every input.
InitNormalize ==
    /\ phase = "init"
    /\ http = "None"
    /\ nCreated = 0
    /\ nClosed = 0
    /\ key = None
    /\ req = [r \in Requests |-> Idle]
    /\ norm \in {[NormIdle EXCEPT !.pc = "ready", !.input = s] : s \in NormInputs}

Normalize ==
    /\ norm.pc = "ready"
    /\ norm' = [norm EXCEPT !.pc = "done", !.output = normalize_plate(norm.input)]
    /\ UNCHANGED <<phase, http, nCreated, nClosed, key, req>>

NextNormalize == Normalize

SpecNormalize == InitNormalize /\ [][NextNormalize]_vars

----------------------------------------------------------------------------
(* Properties *)

\* What the properties say about strings, stated by position rather than by
\* the scans above.
AllWhitespace(s) == \A i \in 1..Len(s) : s[i] \in Whitespace
Kept(s) == SelectSeq(s, LAMBDA c : c \notin Whitespace /\ c # 45)
RECURSIVE UpperedFromRight(_)
UpperedFromRight(s) ==
    IF Len(s) = 0 THEN << >>
    ELSE UpperedFromRight(SubSeq(s, 1, Len(s) - 1)) \o UpperChar(s[Len(s)])
IsPrefixOfLen(p, s, n) ==
    /\ Len(p) = n
    /\ n <= Len(s)
    /\ \A i \in 1..n : p[i] = s[i]
NoCredential == key = << >> \/ key = <<"">>
Started(q) == q.pc \notin {"idle", "Received"}
Answered(q) == q.upstream # << >>
FieldOf(json, name) == IF name \in DOMAIN json THEN <<json[name]>> ELSE << >>

\* C1: whenever the upstream answers 200, the lookup ends in Completed with
\* status 200 and the five fields of the response equal to the fields of the
\* same meaning in the upstream body, null where the body omits them, for
\* every 200 body (one that omits all five included).
C1_Upstream200Completes ==
    \A r \in Requests :
        LET q == req[r] IN
        (Answered(q) /\ q.upstream[1].status_code = 200) =>
            /\ q.pc = "done"
            /\ State(q) = "Completed"
            /\ q.outcome.status_code = 200
            /\ q.outcome.body.make = FieldOf(q.upstream[1].json, "make")
            /\ q.outcome.body.model = FieldOf(q.upstream[1].json, "model")
            /\ q.outcome.body.colour = FieldOf(q.upstream[1].json, "colour")
            /\ q.outcome.body.year_of_manufacture
                   = FieldOf(q.upstream[1].json, "yearOfManufacture")
            /\ q.outcome.body.fuel_type = FieldOf(q.upstream[1].json, "fuelType")

\* C2: a lookup whose plate is empty or all whitespace ends in Failed with
\* status 400 and message "plate required", and issues no upstream call,
\* with or without a credential.
C2_BlankPlateRejected ==
    \A r \in Requests :
        LET q == req[r] IN
        (Started(q) /\ AllWhitespace(q.raw)) =>
            /\ q.pc = "done"
            /\ State(q) = "Failed"
            /\ q.outcome.kind = "HTTPException"
            /\ q.outcome.status_code = 400
            /\ q.outcome.prefix = "plate required"
            /\ q.outcome.snippet = << >>
            /\ q.calls = 0
            /\ q.sent = << >>

C2_Witness ==
    \E r \in Requests :
        /\ ~NoCredential
        /\ req[r].pc = "done"
        /\ Len(req[r].raw) = MaxPlateLen
        /\ AllWhitespace(req[r].raw)
        /\ 9 \in {req[r].raw[i] : i \in 1..Len(req[r].raw)}
        /\ req[r].outcome.status_code = 400

\* C3: with no credential configured, no lookup ever issues an upstream
\* call, and every lookup whose plate is not blank ends in NotFound with
\* status 404 and message "Vehicle not found".
C3_NoCredentialNotFound ==
    NoCredential =>
        \A r \in Requests :
            LET q == req[r] IN
            /\ q.calls = 0
            /\ q.sent = << >>
            /\ q.pc # "UpstreamQueried"
            /\ ~Answered(q)
            /\ (Started(q) /\ ~AllWhitespace(q.raw)) =>
                   /\ q.pc = "done"
                   /\ State(q) = "NotFound"
                   /\ q.outcome.kind = "HTTPException"
                   /\ q.outcome.status_code = 404
                   /\ q.outcome.prefix = "Vehicle not found"
                   /\ q.outcome.snippet = << >>

C3_Witness ==
    \E r \in Requests :
        /\ key = <<"">>
        /\ req[r].pc = "done"
        /\ ~AllWhitespace(req[r].raw)
        /\ State(req[r]) = "NotFound"

\* C4: an upstream status of 400 or 404 ends the lookup in NotFound: status
\* 404, message "Vehicle not found", nothing of the upstream's status or body.
C4_UpstreamNotFound ==
    \A r \in Requests :
        LET q == req[r] IN
        (Answered(q) /\ q.upstream[1].status_code \in {400, 404}) =>
            /\ q.pc = "done"
            /\ State(q) = "NotFound"
            /\ q.outcome.kind = "HTTPException"
            /\ q.outcome.status_code = 404
            /\ q.outcome.prefix = "Vehicle not found"
            /\ q.outcome.snippet = << >>

C4_Witness ==
    \E r \in Requests :
        /\ Answered(req[r])
        /\ req[r].upstream[1].status_code = 400
        /\ Len(req[r].upstream[1].text) > 0
        /\ State(req[r]) = "NotFound"

\* C5: any upstream status other than 200, 400 and 404 ends the lookup in
\* Failed with exactly the upstream's status code and the message
\* "DVLA error: " followed by the first 200 characters of the upstream body
\* (the whole body when it is shorter), never a 200 and never a 404.
C5_UpstreamFailure ==
    \A r \in Requests :
        LET q == req[r] IN
        (Answered(q) /\ q.upstream[1].status_code \notin {200, 400, 404}) =>
            /\ q.pc = "done"
            /\ State(q) = "Failed"
            /\ q.outcome.kind = "HTTPException"
            /\ q.outcome.status_code = q.upstream[1].status_code
            /\ q.outcome.status_code \notin {200, 404}
            /\ q.outcome.prefix = "DVLA error: "
            /\ Len(q.outcome.snippet) <= 200
            /\ IsPrefixOfLen(q.outcome.snippet, q.upstream[1].text,
                             Min(200, Len(q.upstream[1].text)))

C5_Witness ==
    \E r \in Requests :
        /\ Answered(req[r])
        /\ req[r].upstream[1].status_code = 500
        /\ Len(req[r].upstream[1].text) > 200
        /\ Len(req[r].outcome.snippet) = 200
        /\ State(req[r]) = "Failed"

\* C6: a lookup ends in exactly one terminal state, and when the post fails
\* because the upstream did not answer within the timeout, the lookup ends in
\* Failed with the failure reported to the caller as an error of the upstream,
\* that is, by the HTTPException the handler raises for a failing upstream
\* and not by an exception that escapes the handler.
C6_TimeoutReported ==
    \A r \in Requests :
        LET q == req[r] IN
        /\ q.pc = "done" =>
               State(q) \in {"Completed", "NotFound", "Failed"}
        /\ (q.raised # << >> /\ q.raised[1] \in TimeoutExceptions) =>
               /\ q.pc = "done"
               /\ State(q) = "Failed"
               /\ q.outcome.kind = "HTTPException"

\* C7: normalize_plate returns its input without the whitespace characters
\* and the hyphens, the characters left in their order and upper-cased; the
\* result holds no whitespace and no hyphen, nothing else is dropped,
\* "ab 12-cde" gives "AB12CDE" and the empty string gives the empty string.
C7_NormalizePlate ==
    norm.pc = "done" =>
        /\ norm.output = UpperedFromRight(Kept(norm.input))
        /\ \A i \in 1..Len(norm.output) :
               norm.output[i] \notin Whitespace /\ norm.output[i] # 45
        /\ Len(norm.output) >= Len(Kept(norm.input))
        /\ Len(Kept(norm.input))
               = Cardinality({i \in 1..Len(norm.input) :
                                 norm.input[i] \notin Whitespace /\ norm.input[i] # 45})
        /\ norm.input = << >> => norm.output = << >>
        /\ norm.input = <<97, 98, 32, 49, 50, 45, 99, 100, 101>>
               => norm.output = <<65, 66, 49, 50, 67, 68, 69>>

C7_Witness ==
    /\ norm.pc = "done"
    /\ norm.input = <<97, 98, 32, 49, 50, 45, 99, 100, 101>>
    /\ norm.output = <<65, 66, 49, 50, 67, 68, 69>>

\* C8: a lookup issues at most one upstream call whatever the upstream
\* answers, and none once it has reached a terminal state.
C8_AtMostOneCall ==
    /\ [](\A r \in Requests : req[r].calls <= 1)
    /\ [][\A r \in Requests :
            /\ req[r].pc = "done" => req'[r].calls = req[r].calls
            /\ req[r].pc = "UpstreamQueried" =>
                   (req'[r].calls = req[r].calls
                    /\ req'[r].pc \in {"UpstreamQueried", "done"})]_vars

C8_Witness ==
    \E r \in Requests :
        /\ req[r].pc = "done"
        /\ req[r].calls = 1
        /\ Answered(req[r])
        /\ req[r].upstream[1].status_code = 503

\* C9: under any interleaving of startup, lookups and shutdown, every lookup
\* that reaches the outbound call finds the client created and not closed
\* (the assertion never fails, no post goes to or waits on a closed client);
\* the client is created once, at startup, and closed once, at shutdown; no
\* step of a lookup handler changes or closes it.
C9_SharedClient ==
    /\ [](/\ \A r \in Requests :
                /\ req[r].outcome.exc \notin {"AssertionError", "RuntimeError"}
                /\ req[r].pc = "UpstreamQueried" => http = "open"
                /\ req[r].calls >= 1 => nCreated = 1
          /\ nCreated <= 1
          /\ nClosed <= 1
          /\ phase = "init" => (nCreated = 0 /\ nClosed = 0)
          /\ phase = "running" => (nCreated = 1 /\ nClosed = 0 /\ http = "open")
          /\ phase \in {"closing", "stopped"} => (nCreated = 1 /\ nClosed = 1))
    /\ [][(http' # http \/ nCreated' # nCreated \/ nClosed' # nClosed)
              => (req' = req /\ phase' # phase)]_vars

\* C10: whenever a lookup issues an upstream call, the registrationNumber it
\* sends is the normalized form of the submitted plate and is not empty.
C10_SentPlateNonEmpty ==
    \A r \in Requests :
        LET q == req[r] IN
        q.calls >= 1 =>
            /\ q.sent # << >>
            /\ q.sent[1] = UpperedFromRight(Kept(q.raw))
            /\ q.sent[1] # << >>

====
